---------------------------- MODULE Spec2Model ----------------------------
(***************************************************************************)
(* Model of energy_traces/test-generator.py: the synthetic hourly          *)
(* wholesale electricity price generator.                                  *)
(*                                                                         *)
(* Representation.                                                         *)
(*  - A timestamp of the grid is its position k in pd.date_range(...);     *)
(*    its calendar fields (year, month, day, hour) are derived from the    *)
(*    hour count since 1970-01-01T00:00, the way a datetime64 index        *)
(*    derives them.                                                        *)
(*  - Prices are fixed-point integers in units of 1e-7 EUR/kWh: the        *)
(*    year factors are in units of 1e-3, the season and time-of-day        *)
(*    multipliers in units of 1e-2, so every baseline is an exact integer. *)
(*    The binary floating-point rounding of the program (about 1e-17) is   *)
(*    replaced by truncation at 1e-7.                                      *)
(*  - The list `prices` is represented by its length and its last element. *)
(*  - The random source is modelled by nondeterministic draws from small   *)
(*    sets that contain the silent draw (noise 0, no spike), realistic     *)
(*    noise, and extreme noise that drives the price to either clamp.      *)
(***************************************************************************)
EXTENDS Integers, Sequences, FiniteSets, TLC

VARIABLES
    pc,           \* "loop" | "done" | "error": position in generate_prices
    i,            \* number of timestamps the for loop has consumed
    prev_price,   \* << >> for None, <<p>> for a price
    prices_len,   \* len(prices)
    prices_last,  \* prices[-1] (0 while prices is empty)
    written,      \* number of pq.write_table calls made
    rows_written, \* len(df) of the table written
    base,         \* last iteration: baseline_price(dt)
    draw,         \* last iteration: the random draws
    raw,          \* last iteration: price after the smoothing step
    spiked,       \* last iteration: price after the spike step, before the clamp
    blended,      \* last iteration: TRUE iff the 0.8/0.2 branch was taken
    burst,        \* hours explored since the random source first deviated
    win_p0,       \* price before the current run of silent constant-baseline hours
    win_b,        \* baseline of that run
    win_n         \* number of hours of that run so far

vars == <<pc, i, prev_price, prices_len, prices_last, written, rows_written,
          base, draw, raw, spiked, blended, burst, win_p0, win_b, win_n>>

---------------------------------------------------------------------------
(* Exploration bound: a run is followed for MaxBurst hours after the first *)
(* non-silent draw.                                                        *)
MaxBurst == 4

---------------------------------------------------------------------------
(* Calendar arithmetic of the datetime index.                              *)

\* days since 1970-01-01 of the civil date y-m-d (proleptic Gregorian)
DaysFromCivil(y, m, d) ==
    LET yy  == IF m <= 2 THEN y - 1 ELSE y
        era == yy \div 400
        yoe == yy - era * 400
        mp  == IF m > 2 THEN m - 3 ELSE m + 9
        doy == (153 * mp + 2) \div 5 + d - 1
        doe == yoe * 365 + yoe \div 4 - yoe \div 100 + doy
    IN  era * 146097 + doe - 719468

\* civil date of a day count since 1970-01-01
CivilFromDays(z0) ==
    LET z   == z0 + 719468
        era == z \div 146097
        doe == z - era * 146097
        yoe == (doe - doe \div 1460 + doe \div 36524 - doe \div 146096) \div 365
        doy == doe - (365 * yoe + yoe \div 4 - yoe \div 100)
        mp  == (5 * doy + 2) \div 153
        d   == doy - (153 * mp + 2) \div 5 + 1
        m   == IF mp < 10 THEN mp + 3 ELSE mp - 9
        y   == yoe + era * 400 + (IF m <= 2 THEN 1 ELSE 0)
    IN  [year |-> y, month |-> m, day |-> d]

HoursFromCivil(y, m, d, h) == DaysFromCivil(y, m, d) * 24 + h

\* start="2021-01-01 00:00"
StartHour == HoursFromCivil(2021, 1, 1, 0)

\* end="2024-12-31 23:00"
EndHour == HoursFromCivil(2024, 12, 31, 23)

\* (faulty variant: the end of the range excluded)
NumRowsLeftClosed == EndHour - StartHour

\* len(pd.date_range(start, end, freq="h")): both ends included
NumRows == EndHour - StartHour + 1

\* the datetime at hours-since-epoch h, with the fields baseline_price reads
DatetimeAt(h) ==
    LET c == CivilFromDays(h \div 24)
    IN  [year |-> c.year, month |-> c.month, day |-> c.day, hour |-> h % 24]

\* timestamps[k]
Timestamp(k) == DatetimeAt(StartHour + k)

\* position in the grid of a calendar hour
IndexOf(y, m, d, h) == HoursFromCivil(y, m, d, h) - StartHour

---------------------------------------------------------------------------
(* baseline_price                                                          *)

\* the year table, in units of 1e-3 EUR/kWh
year_factor == (2021 :> 70) @@ (2022 :> 150) @@ (2023 :> 110) @@ (2024 :> 85)

\* (faulty variant: a default rate instead of the KeyError)
YearLookupDefault(year) ==
    IF year \in DOMAIN year_factor
    THEN [raised |-> FALSE, value |-> year_factor[year]]
    ELSE [raised |-> FALSE, value |-> 100]

\* the subscript [dt.year]: a missing key raises KeyError
YearLookup(year) ==
    IF year \in DOMAIN year_factor
    THEN [raised |-> FALSE, value |-> year_factor[year]]
    ELSE [raised |-> TRUE, value |-> 0]

\* season multiplier, in units of 1e-2
season_mult(month) ==
    IF month \in {12, 1, 2} THEN 125
    ELSE IF month \in {6, 7, 8} THEN 85
    ELSE 105

\* (faulty variant: bucket ends included)
tod_mult_inclusive(hour) ==
    IF 0 <= hour /\ hour <= 6 THEN 85
    ELSE IF 6 <= hour /\ hour <= 12 THEN 105
    ELSE IF 12 <= hour /\ hour <= 18 THEN 115
    ELSE IF 18 <= hour /\ hour <= 22 THEN 120
    ELSE 100

\* time-of-day multiplier, in units of 1e-2
tod_mult(hour) ==
    IF 0 <= hour /\ hour < 6 THEN 85
    ELSE IF 6 <= hour /\ hour < 12 THEN 105
    ELSE IF 12 <= hour /\ hour < 18 THEN 115
    ELSE IF 18 <= hour /\ hour < 22 THEN 120
    ELSE 100

\* (faulty variant: a discount that depends on the day of the month)
baseline_price_weekday(dt) ==
    LET yf == YearLookup(dt.year)
    IN  IF yf.raised THEN yf
        ELSE [raised |-> FALSE,
              value  |-> yf.value * season_mult(dt.month) * tod_mult(dt.hour)
                         - (IF dt.day % 7 = 0 THEN 125 ELSE 0)]

\* baseline_price(dt), in units of 1e-7 EUR/kWh; raised = TRUE for the KeyError
baseline_price(dt) ==
    LET yf == YearLookup(dt.year)
    IN  IF yf.raised THEN yf
        ELSE [raised |-> FALSE,
              value  |-> yf.value * season_mult(dt.month) * tod_mult(dt.hour)]

---------------------------------------------------------------------------
(* The random source                                                       *)

\* np.random.normal(0.0, 0.002), in units of 1e-7: silent, one standard
\* deviation, and two extreme draws
Noises == {-5000000, 0, 20000, 20000000}

\* np.random.random(), in units of 1e-4: just below and at the threshold 0.0005
Uniforms == {4, 5}

\* np.random.uniform(1.5, 3.5), in units of 1e-1: the two ends of the range
Multipliers == {15, 35}

\* the spike test `np.random.random() < 0.0005`
SpikeTaken(u) == u < 5

\* the draws of one iteration; the multiplier is drawn only when the spike
\* is taken (mult = 0 stands for "not drawn")
Draws ==
    {[noise |-> n, u |-> u, mult |-> m] :
        n \in Noises, u \in Uniforms, m \in Multipliers \cup {0}}

WellFormed(d) == (d.mult # 0) <=> SpikeTaken(d.u)

Silent(d) == d.noise = 0 /\ ~SpikeTaken(d.u)

---------------------------------------------------------------------------
(* One iteration of the for loop                                           *)

\* (faulty variant: weights 0.7 / 0.3)
SmoothWeights(prev, b, noise) ==
    IF prev = << >>
    THEN [value |-> b + noise, blended |-> FALSE]
    ELSE [value |-> (7 * prev[1] + 3 * (b + noise)) \div 10, blended |-> TRUE]

\* (faulty variant: the first hour blended with a previous price of 0)
SmoothAlways(prev, b, noise) ==
    IF prev = << >>
    THEN [value |-> (2 * (b + noise)) \div 10, blended |-> TRUE]
    ELSE [value |-> (8 * prev[1] + 2 * (b + noise)) \div 10, blended |-> TRUE]

\* `if prev_price is None: ... else: 0.8 * prev_price + 0.2 * (base + noise)`;
\* blended records which branch ran
Smooth(prev, b, noise) ==
    IF prev = << >>
    THEN [value |-> b + noise, blended |-> FALSE]
    ELSE [value |-> (8 * prev[1] + 2 * (b + noise)) \div 10, blended |-> TRUE]

\* `if np.random.random() < 0.0005: price *= np.random.uniform(1.5, 3.5)`
Spike(price, d) ==
    IF SpikeTaken(d.u) THEN (price * d.mult) \div 10 ELSE price

\* `price = max(price, 0.02); price = min(price, 0.40)`, in units of 1e-7
LO == 200000
HI == 4000000
Max(a, b) == IF a >= b THEN a ELSE b
Min(a, b) == IF a <= b THEN a ELSE b

\* (faulty variant: the cap left out)
ClampFloorOnly(price) == Max(price, LO)

Clamp(price) == Min(Max(price, LO), HI)

\* (faulty variant: the clamp applied before the spike)
BodyClampFirst(prev, b, d) ==
    LET sm == Smooth(prev, b, d.noise)
        c  == Clamp(sm.value)
    IN  [raw |-> sm.value, spiked |-> c, price |-> Spike(c, d),
         blended |-> sm.blended]

\* the body of the loop for one hour: smoothing, then spike, then clamp
Body(prev, b, d) ==
    LET sm == Smooth(prev, b, d.noise)
        s  == Spike(sm.value, d)
    IN  [raw |-> sm.value, spiked |-> s, price |-> Clamp(s),
         blended |-> sm.blended]

\* (faulty variant: the value before the clamp carried over)
CarryPreClamp(out) == <<out.spiked>>

\* `prev_price = price`: the value carried to the next hour
Carry(out) == <<out.price>>

---------------------------------------------------------------------------
(* generate_prices                                                         *)

\* Hours of the grid at which the random source may first deviate from the
\* silent draw: the first hour, the hour before a new year, the hour before
\* the leap day, a summer afternoon, and the last hours of the grid.
BurstStarts ==
    { 0,
      IndexOf(2021, 12, 31, 23),
      IndexOf(2024, 2, 28, 23),
      IndexOf(2023, 7, 15, 17),
      NumRows - 2 }

NoDraw == [noise |-> 0, u |-> 5, mult |-> 0]

Init ==
    /\ pc = "loop"
    /\ i = 0
    /\ prev_price = << >>
    /\ prices_len = 0
    /\ prices_last = 0
    /\ written = 0
    /\ rows_written = 0
    /\ base = 0
    /\ draw = NoDraw
    /\ raw = 0
    /\ spiked = 0
    /\ blended = FALSE
    /\ burst = 0
    /\ win_p0 = 0
    /\ win_b = 0
    /\ win_n = 0

\* bookkeeping of the current run of silent hours with a constant baseline
Window(prev, b, d, out) ==
    IF ~Silent(d) \/ prev = << >>
    THEN [p0 |-> out.price, b |-> b, n |-> 0]
    ELSE IF b = win_b
    THEN [p0 |-> win_p0, b |-> win_b, n |-> win_n + 1]
    ELSE [p0 |-> prev[1], b |-> b, n |-> 1]

\* one pass of `for dt in timestamps:` (lines 56-78)
Iterate ==
    /\ pc = "loop"
    /\ i < NumRows
    /\ burst < MaxBurst
    /\ \E d \in Draws :
        /\ WellFormed(d)
        /\ burst > 0 \/ i \in BurstStarts \/ Silent(d)
        /\ LET dt == Timestamp(i)
               b  == baseline_price(dt)
           IN  IF b.raised
               THEN /\ pc' = "error"
                    /\ UNCHANGED <<i, prev_price, prices_len, prices_last, base,
                                   draw, raw, spiked, blended, burst,
                                   win_p0, win_b, win_n>>
               ELSE LET out == Body(prev_price, b.value, d)
                        w   == Window(prev_price, b.value, d, out)
                    IN  /\ pc' = "loop"
                        /\ i' = i + 1
                        /\ prices_len' = prices_len + 1
                        /\ prices_last' = out.price
                        /\ prev_price' = Carry(out)
                        /\ base' = b.value
                        /\ draw' = d
                        /\ raw' = out.raw
                        /\ spiked' = out.spiked
                        /\ blended' = out.blended
                        /\ burst' = IF burst > 0 \/ ~Silent(d) THEN burst + 1 ELSE 0
                        /\ win_p0' = w.p0
                        /\ win_b' = w.b
                        /\ win_n' = w.n
    /\ UNCHANGED <<written, rows_written>>

\* after the loop: build the frame and write the table once (lines 81-95)
WriteTable ==
    /\ pc = "loop"
    /\ i = NumRows
    /\ pc' = "done"
    /\ written' = written + 1
    /\ rows_written' = prices_len
    /\ UNCHANGED <<i, prev_price, prices_len, prices_last, base, draw, raw,
                   spiked, blended, burst, win_p0, win_b, win_n>>

Next == Iterate \/ WriteTable

Spec == Init /\ [][Next]_vars

---------------------------------------------------------------------------
(* Properties                                                              *)

\* C1: every price appended to the output lies in [0.02, 0.40], whatever the
\* noise draw, the spike decision and the spike multiplier.
C1_PriceInRange ==
    prices_len > 0 => 200000 <= prices_last /\ prices_last <= 4000000

\* a spike on a blended hour pushed the price above the cap and 0.40 was stored
C1_Witness ==
    /\ prices_len > 1
    /\ draw.u < 5
    /\ spiked > 4000000
    /\ prices_last = 4000000

\* the calendar successor of a datetime, by month lengths and the leap rule
C2_IsLeap(y) == (y % 4 = 0 /\ y % 100 # 0) \/ y % 400 = 0
C2_DaysIn(y, m) ==
    IF m = 2 THEN (IF C2_IsLeap(y) THEN 29 ELSE 28)
    ELSE IF m \in {4, 6, 9, 11} THEN 30 ELSE 31
C2_NextHour(t) ==
    IF t.hour < 23 THEN [t EXCEPT !.hour = t.hour + 1]
    ELSE IF t.day < C2_DaysIn(t.year, t.month)
         THEN [t EXCEPT !.day = t.day + 1, !.hour = 0]
    ELSE IF t.month < 12
         THEN [t EXCEPT !.month = t.month + 1, !.day = 1, !.hour = 0]
    ELSE [year |-> t.year + 1, month |-> 1, day |-> 1, hour |-> 0]

\* C2: the grid starts at 2021-01-01T00:00, ends at 2024-12-31T23:00, each
\* timestamp is the calendar hour after its predecessor, one price is
\* produced per timestamp, and the table has 35,064 rows
\* (8760 + 8760 + 8760 + 8784).
C2_Grid ==
    /\ Timestamp(0) = [year |-> 2021, month |-> 1, day |-> 1, hour |-> 0]
    /\ Timestamp(NumRows - 1) = [year |-> 2024, month |-> 12, day |-> 31, hour |-> 23]
    /\ NumRows = 35064
    /\ IndexOf(2022, 1, 1, 0) = 8760
    /\ IndexOf(2023, 1, 1, 0) = 8760 + 8760
    /\ IndexOf(2024, 1, 1, 0) = 8760 + 8760 + 8760
    /\ NumRows - IndexOf(2024, 1, 1, 0) = 8784
    /\ prices_len = i
    /\ i <= 35064
    /\ i + 1 < NumRows => Timestamp(i + 1) = C2_NextHour(Timestamp(i))
    /\ pc = "done" => prices_len = 35064 /\ rows_written = 35064

\* the table was written after the last hour, 2024-12-31T23:00
C2_Witness ==
    /\ pc = "done"
    /\ rows_written = 35064
    /\ Timestamp(i - 1) = [year |-> 2024, month |-> 12, day |-> 31, hour |-> 23]

\* the tables of the specification, in the units of the model
C3_YearFactor(y) ==
    CASE y = 2021 -> 70 [] y = 2022 -> 150 [] y = 2023 -> 110 [] y = 2024 -> 85
C3_Season(m) ==
    CASE m \in {12, 1, 2} -> 125 [] m \in {6, 7, 8} -> 85
      [] m \in {3, 4, 5, 9, 10, 11} -> 105
C3_Buckets == << [lo |-> 0, hi |-> 6, mult |-> 85],
                 [lo |-> 6, hi |-> 12, mult |-> 105],
                 [lo |-> 12, hi |-> 18, mult |-> 115],
                 [lo |-> 18, hi |-> 22, mult |-> 120],
                 [lo |-> 22, hi |-> 24, mult |-> 100] >>
C3_BucketsOf(h) ==
    {k \in 1..Len(C3_Buckets) : C3_Buckets[k].lo <= h /\ h < C3_Buckets[k].hi}
C3_Tod(h) == C3_Buckets[CHOOSE k \in C3_BucketsOf(h) : TRUE].mult
C3_Expected(t) == C3_YearFactor(t.year) * C3_Season(t.month) * C3_Tod(t.hour)

\* C3: for every timestamp of 2021..2024 baseline_price is
\* year_factor x season_multiplier x time_of_day_multiplier with the tables
\* of the specification, every hour falls in exactly one bucket, and the two
\* worked examples have the stated values.
C3_Baseline ==
    /\ i < NumRows =>
         LET t == Timestamp(i)
         IN  /\ Cardinality(C3_BucketsOf(t.hour)) = 1
             /\ t.month \in 1..12
             /\ baseline_price(t) = [raised |-> FALSE, value |-> C3_Expected(t)]
    /\ prices_len > 0 => base = C3_Expected(Timestamp(i - 1))
    /\ baseline_price([year |-> 2022, month |-> 1, day |-> 15, hour |-> 19]).value
         = 2250000
    /\ baseline_price([year |-> 2024, month |-> 7, day |-> 10, hour |-> 3]).value
         = 85 * 85 * 85

\* the loop obtained the baseline 0.225 of a 2022 winter evening
C3_Witness ==
    /\ prices_len > 0
    /\ base = 2250000
    /\ Timestamp(i - 1).year = 2022
    /\ Timestamp(i - 1).hour = 19

\* C4: baseline_price depends on the year, month and hour of the timestamp
\* only: it is the same for every day of the month, and the value the loop
\* obtains is that function of the timestamp whatever the previous price.
C4_Pure ==
    /\ i < NumRows =>
         LET t == Timestamp(i)
             v == baseline_price(t)
         IN  \A d \in 1..31 : baseline_price([t EXCEPT !.day = d]) = v
    /\ prices_len > 0 =>
         LET t == Timestamp(i - 1)
         IN  \A d \in 1..31 : baseline_price([t EXCEPT !.day = d]).value = base

\* a baseline obtained on the 31st of a month while the previous price was
\* at the cap, far from its silent value
C4_Witness ==
    /\ prices_len > 1
    /\ burst > 1
    /\ Timestamp(i - 1).day = 31
    /\ (8 * 4000000 + 2 * (base + draw.noise)) \div 10 = raw

\* C6: on every hour but the first the raw price is
\* 0.8 x (the price appended for the preceding hour) + 0.2 x (baseline +
\* noise), and the price carried to the next hour is the appended one, after
\* spike and clamp.
C6_BlendsStoredPrice ==
    [][ (pc = "loop" /\ prices_len > 0 /\ prices_len' = prices_len + 1) =>
          /\ raw' = (8 * prices_last + 2 * (base' + draw'.noise)) \div 10
          /\ prev_price = <<prices_last>>
          /\ prev_price' = <<prices_last'>> ]_vars

\* an hour whose raw price was blended from a predecessor that a spike had
\* pushed over the cap and the clamp had cut to 0.40
C6_Witness ==
    /\ prices_len > 1
    /\ blended
    /\ burst >= 2
    /\ raw = (8 * 4000000 + 2 * (base + draw.noise)) \div 10

\* C7: the blending step is skipped on the first hour and only there: its
\* raw price is baseline + noise, it still goes through spike and clamp, and
\* the previous price is never absent once an hour has been processed.
C7_FirstHourOnly ==
    /\ prices_len = 0 => prev_price = << >>
    /\ prices_len > 0 => prev_price # << >>
    /\ prices_len > 0 => (blended <=> prices_len > 1)
    /\ prices_len = 1 =>
         /\ Timestamp(0) = [year |-> 2021, month |-> 1, day |-> 1, hour |-> 0]
         /\ raw = base + draw.noise
         /\ spiked = (IF draw.u < 5 THEN (raw * draw.mult) \div 10 ELSE raw)
         /\ prices_last = Min(Max(spiked, 200000), 4000000)

\* the first hour with noise, a spike and a clamp
C7_Witness ==
    /\ prices_len = 1
    /\ ~blended
    /\ draw.noise # 0
    /\ draw.u < 5
    /\ spiked # raw
    /\ prices_last # spiked

\* C8: within an hour the order is smoothing, spike, clamp: a spike
\* multiplies the smoothed price by a factor in [1.5, 3.5], the clamp is
\* applied to the spiked value, and a spike that lifts the price above 0.40
\* stores exactly 0.40.
C8_SpikeThenClamp ==
    prices_len > 0 =>
      /\ draw.u < 5 => draw.mult \in 15..35 /\ spiked = (raw * draw.mult) \div 10
      /\ draw.u >= 5 => spiked = raw
      /\ prices_last = Min(Max(spiked, 200000), 4000000)
      /\ spiked > 4000000 => prices_last = 4000000

\* a spike lifted a smoothed price that was under the cap above it
C8_Witness ==
    /\ prices_len > 1
    /\ blended
    /\ draw.u < 5
    /\ raw < 4000000
    /\ spiked > 4000000
    /\ prices_last = 4000000

C9_Pow4(n) == CASE n = 0 -> 1 [] n = 1 -> 4 [] n = 2 -> 16 [] n = 3 -> 64
C9_Pow5(n) == CASE n = 0 -> 1 [] n = 1 -> 5 [] n = 2 -> 25 [] n = 3 -> 125

\* C9: with noise and spike disabled and a constant baseline b, n hours
\* after a price p0 the price is 0.8^n x p0 + b x (1 - 0.8^n), and neither
\* the spike nor the clamp alters a value; on the run that is silent from
\* the first hour, every baseline and every price is strictly inside
\* (0.02, 0.40).  The closed form is stated multiplied by 5^n, for n up to
\* 3 (the products fit the integers of the checker): it holds exactly
\* when p0 is a multiple of 5^n units, where the fixed-point arithmetic
\* truncates nothing, and otherwise up to the truncation accumulated.
C9_ClosedForm ==
    /\ win_n >= 1 => raw = spiked /\ spiked = prices_last /\ draw.noise = 0
    /\ (prices_len > 0 /\ win_n = 0) => prices_last = win_p0
    /\ win_n \in 1..3 =>
         LET lhs == C9_Pow5(win_n) * prices_last
             rhs == C9_Pow4(win_n) * win_p0
                      + (C9_Pow5(win_n) - C9_Pow4(win_n)) * win_b
         IN  /\ win_p0 % C9_Pow5(win_n) = 0 => lhs = rhs
             /\ 0 <= rhs - lhs
             /\ rhs - lhs <= 4 * (C9_Pow5(win_n) - C9_Pow4(win_n))
    /\ (prices_len > 0 /\ burst = 0) =>
         /\ 200000 < base /\ base < 4000000
         /\ 200000 < prices_last /\ prices_last < 4000000

\* three silent hours into a new constant baseline, on the run that has
\* been silent from the first hour, starting away from that baseline
C9_Witness ==
    /\ burst = 0
    /\ win_n = 3
    /\ win_p0 # win_b
    /\ win_p0 % 125 = 0
    /\ 125 * prices_last = 64 * win_p0 + 61 * win_b

\* C10: baseline_price raises for a year outside 2021..2024; no timestamp
\* of the grid has such a year, so the loop never aborts on the lookup; the
\* table is written at most once, only after all 35,064 hours have been
\* processed, and once they have been the write is the step that follows.
C10_YearErrorUnreachable ==
    /\ \A y \in {1970, 2020, 2025, 2026} : \A m \in {1, 7} : \A h \in {0, 19} :
          baseline_price([year |-> y, month |-> m, day |-> 1, hour |-> h]).raised
    /\ pc # "error"
    /\ i < NumRows => /\ Timestamp(i).year \in {2021, 2022, 2023, 2024}
                      /\ ~baseline_price(Timestamp(i)).raised
                      /\ written = 0
    /\ written <= 1
    /\ written = 1 <=> pc = "done"
    /\ pc = "done" => i = NumRows /\ prices_len = 35064
    /\ (pc = "loop" /\ i = NumRows) => ENABLED WriteTable

\* all hours processed without an abort, table written once
C10_Witness ==
    /\ pc = "done"
    /\ written = 1
    /\ prices_len = NumRows
    /\ Timestamp(i - 1).year = 2024

=============================================================================
